---- MODULE Spec2Model ----
(***************************************************************************)
(* Model of module_utils/vcenter_helper.py: the Session Manager            *)
(* (VcenterConnection) and the Inventory Resolver (VcenterFacts).          *)
(*                                                                         *)
(* The remote inventory is a tree of records.  A remote object reference   *)
(* is modelled by the object's position (index) in the child list that     *)
(* holds it, so two objects with equal fields are still two references.    *)
(***************************************************************************)
EXTENDS Integers, Sequences, FiniteSets, TLC

VARIABLES
    rootFolder,                 \* si.content.rootFolder: the inventory tree
    si,                         \* self.si: the handle held by the instance
    openSessions,               \* sessions opened on the endpoint and not closed
    nextSession,                \* the next handle SmartConnect hands out
    registered,                 \* handles passed to atexit.register
    disable_ssl_verification,   \* self.disable_ssl_verification
    op,                         \* the last operation called
    args,                       \* its arguments
    outcome,                    \* what it returned or raised
    prevOutcome                 \* outcome of the call before, when it was the same query

vars == <<rootFolder, si, openSessions, nextSession, registered,
          disable_ssl_verification, op, args, outcome, prevOutcome>>

session_vars == <<si, openSessions, nextSession, registered, disable_ssl_verification>>

----------------------------------------------------------------------------
(* Bounds of the model *)

MaxRootChildren == 2      \* children of the root folder
MaxClusters == 2          \* children of a datacenter's hostFolder
MaxDatastores == 2        \* child datastores of a storage pod
MaxPods == 2              \* children of a datacenter's datastoreFolder
MaxSessions == 3          \* sessions the endpoint hands out

----------------------------------------------------------------------------
(* Python values *)

\* Python's None, kept apart from every name (names never hold '<').
None == "<None>"

\* Names that objects of the inventory bear.
Names == {"Ab", "ab", "Cd"}

\* Names a caller may ask for: the inventory's names, a name that differs from
\* them only by case, a name that is nowhere, and the empty string.
QueryNames == Names \cup {"AB", "zz", ""}

\* str.lower() on the strings of the model.
lower(s) ==
    CASE s = "Ab" -> "ab"
      [] s = "AB" -> "ab"
      [] s = "Cd" -> "cd"
      [] OTHER -> s

\* self.si = None of line 13: no handle (the endpoint's handles start at 1).
NoHandle == 0

\* Python truthiness of a name argument: None and "" are falsy.
Truthy(x) == x # None /\ x # ""

Return(v) == [kind |-> "return", value |-> v]
\* return None (a result with no value to read).
ReturnNone == [kind |-> "return", none |-> TRUE]
Raise(e, m) == [kind |-> "raise", exc |-> e, msg |-> m]
NoCall == [kind |-> "none"]

SeqsUpTo(S, n) == UNION {[1..k -> S] : k \in 0..n}

\* Every order in which a Python set may be iterated.
Orders(S) == {f \in [1..Cardinality(S) -> S] : \A x \in S : \E i \in DOMAIN f : f[i] = x}

\* Position of the first TRUE of a sequence of booleans, 0 when there is none:
\* a for loop that leaves at its first hit.
FirstIndex(hits) ==
    IF \E i \in DOMAIN hits : hits[i]
    THEN CHOOSE i \in DOMAIN hits : hits[i] /\ \A j \in 1..(i - 1) : ~hits[j]
    ELSE 0

\* Positions, in order, of the TRUEs of a sequence of booleans from position i on:
\* a for loop that appends every hit.
RECURSIVE Hits(_, _)
Hits(hits, i) ==
    IF i > Len(hits) THEN <<>>
    ELSE IF hits[i] THEN <<i>> \o Hits(hits, i + 1)
    ELSE Hits(hits, i + 1)

----------------------------------------------------------------------------
(* The inventory *)

Datacenter(n, hf, df) ==
    [type |-> "Datacenter", name |-> n, hostFolder |-> hf, datastoreFolder |-> df]
Folder(n, kids) == [type |-> "Folder", name |-> n, childEntity |-> kids]
VirtualMachine(n, t) == [type |-> "VirtualMachine", name |-> n, template |-> t]

RootName == "Datacenters"
Root(children) == [type |-> "Folder", name |-> RootName, childEntity |-> children]

\* The platform keeps datacenter names unique within the root folder.
UniqueDatacenterNames(children) ==
    \A i, j \in DOMAIN children :
        (i # j /\ children[i].type = "Datacenter" /\ children[j].type = "Datacenter")
            => children[i].name # children[j].name

----------------------------------------------------------------------------
(* VcenterFacts *)

get_root == rootFolder

\* The set comprehension of lines 61 and 64.
DatacenterSet ==
    {i \in DOMAIN rootFolder.childEntity : rootFolder.childEntity[i].type = "Datacenter"}

\* get_datacenters, were the comparison of line 66 blind to case.
get_datacenters_anycase(datacenter_name, order) ==
    LET k == FirstIndex([i \in DOMAIN order |->
                            lower(rootFolder.childEntity[order[i]].name)
                                = lower(datacenter_name)])
    IN  IF ~Truthy(datacenter_name) THEN Return(DatacenterSet)
        ELSE IF k # 0 THEN Return(order[k])
        ELSE Raise("Exception", <<"No datacenter found with the name", datacenter_name>>)

\* order: the order in which the loop of line 65 iterates the set.
get_datacenters(datacenter_name, order) ==
    LET k == FirstIndex([i \in DOMAIN order |->
                            rootFolder.childEntity[order[i]].name = datacenter_name])
    IN  IF ~Truthy(datacenter_name) THEN Return(DatacenterSet)
        ELSE IF k # 0 THEN Return(order[k])
        ELSE Raise("Exception", <<"No datacenter found with the name", datacenter_name>>)

\* Lines 75-76, 88-89, 108-110: the result of get_datacenters, then an attribute
\* of it.  With a falsy name the result is a set, which has no such attribute.
datacenter_attr(found, datacenter_name, attr) ==
    IF found.kind = "raise" THEN found
    ELSE IF ~Truthy(datacenter_name)
    THEN Raise("AttributeError", <<"set", attr>>)
    ELSE found

get_clusters_object(datacenter_name, cluster_name, order) ==
    LET dc == datacenter_attr(get_datacenters(datacenter_name, order),
                              datacenter_name, "hostFolder")
        kids == rootFolder.childEntity[dc.value].hostFolder
        k == FirstIndex([i \in DOMAIN kids |->
                            kids[i].type = "ClusterComputeResource"
                            /\ kids[i].name = cluster_name])
    IN  IF dc.kind = "raise" THEN dc
        ELSE IF k # 0 THEN Return(<<dc.value, k>>)
        ELSE Raise("Exception", <<"No cluster found with the name", cluster_name>>)

\* cluster_record, were the two summary figures taken for one another.
cluster_record_swapped(cluster, datacenter) ==
    [name |-> cluster.name,
     datacenter |-> datacenter.name,
     total_memory |-> cluster.summary.numCpuCores,
     total_cores |-> cluster.summary.totalMemory]

cluster_record(cluster, datacenter) ==
    [name |-> cluster.name,
     datacenter |-> datacenter.name,
     total_memory |-> cluster.summary.totalMemory,
     total_cores |-> cluster.summary.numCpuCores]

get_clusters(datacenter_name, order) ==
    LET dc == datacenter_attr(get_datacenters(datacenter_name, order),
                              datacenter_name, "hostFolder")
        datacenter == rootFolder.childEntity[dc.value]
        kids == datacenter.hostFolder
        found == Hits([i \in DOMAIN kids |-> kids[i].type = "ClusterComputeResource"], 1)
    IN  IF dc.kind = "raise" THEN dc
        ELSE Return([i \in DOMAIN found |-> cluster_record(kids[found[i]], datacenter)])

get_datastore_clusters(datacenter_name, order) ==
    LET dc == datacenter_attr(get_datacenters(datacenter_name, order),
                              datacenter_name, "datastoreFolder")
        datacenter == rootFolder.childEntity[dc.value]
        kids == datacenter.datastoreFolder
        found == Hits([i \in DOMAIN kids |-> kids[i].type = "StoragePod"], 1)
    IN  IF dc.kind = "raise" THEN dc
        ELSE Return([i \in DOMAIN found |->
                        [name |-> kids[found[i]].name,
                         datacenter |-> datacenter.name,
                         free_space |-> kids[found[i]].summary.freeSpace,
                         total_space |-> kids[found[i]].summary.capacity]])

\* max_free_space, were a later equal key to replace the best so far.
RECURSIVE max_free_space_last(_, _, _)
max_free_space_last(datastores, i, best) ==
    IF i > Len(datastores) THEN best
    ELSE max_free_space_last(datastores, i + 1,
            IF datastores[i].summary.freeSpace >= datastores[best].summary.freeSpace
            THEN i ELSE best)

\* max(datastores, key=...) of line 148: the first element with the largest key.
RECURSIVE max_free_space(_, _, _)
max_free_space(datastores, i, best) ==
    IF i > Len(datastores) THEN best
    ELSE max_free_space(datastores, i + 1,
            IF datastores[i].summary.freeSpace > datastores[best].summary.freeSpace
            THEN i ELSE best)

\* Lines 131-137: the pod the nested loops stop at, as <<datacenter, child>>
\* positions, or <<>> when they run out.  order: the order in which the loop of
\* line 131 iterates the set of datacenters.
find_storage_pod(datastore_cluster_name, order) ==
    LET at(d) == LET kids == rootFolder.childEntity[d].datastoreFolder
                 IN  FirstIndex([i \in DOMAIN kids |->
                                    kids[i].type = "StoragePod"
                                    /\ kids[i].name = datastore_cluster_name])
        k == FirstIndex([i \in DOMAIN order |-> at(order[i]) # 0])
    IN  IF k = 0 THEN <<>> ELSE <<order[k], at(order[k])>>

get_datastore_with_most_space_in_cluster(datastore_cluster_name, order) ==
    LET at == find_storage_pod(datastore_cluster_name, order)
        datastore_cluster == rootFolder.childEntity[at[1]].datastoreFolder[at[2]]
        datastores == datastore_cluster.childEntity
        max_datastore == datastores[max_free_space(datastores, 1, 1)]
    IN  IF at = <<>>
        THEN Raise("Exception",
                   <<"No datastore cluster found with the name", datastore_cluster_name>>)
        ELSE IF datastores = <<>>
        THEN Raise("Exception", <<"No datastores found in the specified datastore cluster">>)
        ELSE Return([name |-> max_datastore.name,
                     datastore_cluster |-> datastore_cluster_name,
                     free_space |-> max_datastore.summary.freeSpace,
                     total_space |-> max_datastore.summary.capacity])

\* Line 166 reads the local variable cluster, which is bound only by the loop of
\* line 167: the read raises before get_clusters_object is called.
get_networks(datacenter_name, clusters, order) ==
    LET datacenter == get_datacenters(datacenter_name, order)
    IN  IF datacenter.kind = "raise" THEN datacenter
        ELSE Raise("UnboundLocalError", <<"cluster">>)

\* Line 197 calls the global name find_folder_and_path, which the module never
\* defines: the call raises NameError at the first folder whose name differs.
find_folder_and_path(folder_name) ==
    LET root_folder == get_root
        kids == root_folder.childEntity
        k == FirstIndex([i \in DOMAIN kids |-> kids[i].type = "Folder"])
    IN  IF root_folder.type # "Folder" THEN ReturnNone
        ELSE IF k = 0 THEN ReturnNone
        ELSE IF lower(kids[k].name) = lower(folder_name)
        THEN Return([folder |-> <<k>>, path |-> root_folder.name])
        ELSE Raise("NameError", <<"find_folder_and_path">>)

\* template_matches, were the names compared as they are.
template_matches_exact(child, template_name) ==
    /\ child.type = "VirtualMachine"
    /\ child.template
    /\ child.name = template_name

\* The condition of line 214.
template_matches(child, template_name) ==
    /\ child.type = "VirtualMachine"
    /\ child.template
    /\ lower(child.name) = lower(template_name)

get_template(template_name) ==
    LET kids == get_root.childEntity
        template_objs == Hits([i \in DOMAIN kids |-> template_matches(kids[i], template_name)], 1)
        all == Hits([i \in DOMAIN kids |->
                        kids[i].type = "VirtualMachine" /\ kids[i].template], 1)
        all_templates == [i \in DOMAIN all |-> kids[all[i]].name]
    IN  IF template_objs = <<>>
        THEN Raise("Exception", <<"No template found with the name", template_name,
                                  "Available templates", all_templates>>)
        ELSE Return(template_objs)

----------------------------------------------------------------------------
(* Inventories the resolver is run against *)

ComputeResource(t, n, s, nw) == [type |-> t, name |-> n, summary |-> s, network |-> nw]

\* Children of a hostFolder: compute clusters, with and without networks, and a
\* standalone host (vim.ComputeResource, not a cluster) bearing a cluster's name.
HostFolderEntities ==
    {ComputeResource("ClusterComputeResource", "Ab",
                     [totalMemory |-> 100, numCpuCores |-> 8],
                     <<[name |-> "net1"], [name |-> "net2"]>>),
     ComputeResource("ClusterComputeResource", "Ab",
                     [totalMemory |-> 200, numCpuCores |-> 16], <<>>),
     ComputeResource("ClusterComputeResource", "Cd",
                     [totalMemory |-> 200, numCpuCores |-> 16], <<[name |-> "net1"]>>),
     ComputeResource("ClusterComputeResource", "Cd",
                     [totalMemory |-> 100, numCpuCores |-> 8], <<>>),
     ComputeResource("ComputeResource", "Ab",
                     [totalMemory |-> 100, numCpuCores |-> 8], <<[name |-> "net1"]>>)}

Datastore(n, free, cap) ==
    [type |-> "Datastore", name |-> n, summary |-> [freeSpace |-> free, capacity |-> cap]]

RECURSIVE SumFree(_)
SumFree(ds) == IF ds = <<>> THEN 0 ELSE Head(ds).summary.freeSpace + SumFree(Tail(ds))

RECURSIVE SumCapacity(_)
SumCapacity(ds) == IF ds = <<>> THEN 0 ELSE Head(ds).summary.capacity + SumCapacity(Tail(ds))

StoragePod(n, ds) ==
    [type |-> "StoragePod", name |-> n,
     summary |-> [freeSpace |-> SumFree(ds), capacity |-> SumCapacity(ds)],
     childEntity |-> ds]

\* Datastores: two of them tie on free space and differ in name and capacity.
Datastores ==
    {Datastore("ds1", 10, 100), Datastore("ds2", 50, 200),
     Datastore("ds3", 50, 100), Datastore("ds4", 30, 60)}

\* Children of a datastoreFolder: storage pods, and a datastore outside any pod
\* bearing a pod's name.
DatastoreFolderEntities ==
    {StoragePod("Ab", <<Datastore("ds1", 10, 100)>>),
     StoragePod("Ab", <<Datastore("ds2", 50, 200), Datastore("ds3", 50, 100)>>),
     StoragePod("Cd", <<>>),
     Datastore("Ab", 30, 60)}

\* Children of the root folder: datacenters, folders (one level of subfolders)
\* and virtual machines, templates or not.
RootEntities ==
    {Datacenter(n, <<>>, <<>>) : n \in Names}
    \cup {Folder(n, kids) : n \in {"Ab", "Cd"}, kids \in {<<>>, <<Folder("ab", <<>>)>>}}
    \cup {VirtualMachine(n, t) : n \in {"Ab", "ab"}, t \in BOOLEAN}
    \cup {VirtualMachine("Cd", TRUE)}

RootInventories ==
    {Root(c) : c \in {c \in SeqsUpTo(RootEntities, MaxRootChildren) :
                        UniqueDatacenterNames(c)}}

\* One datacenter with any hostFolder, alone or beside a second datacenter.
ComputeInventories ==
    LET other == Datacenter("Cd", <<ComputeResource("ClusterComputeResource", "Ab",
                        [totalMemory |-> 200, numCpuCores |-> 16], <<>>)>>, <<>>)
    IN  UNION {{Root(<<Datacenter("Ab", hf, <<>>)>>),
                Root(<<Datacenter("Ab", hf, <<>>), other>>),
                Root(<<other, Datacenter("Ab", hf, <<>>)>>)} :
                    hf \in SeqsUpTo(HostFolderEntities, MaxClusters)}

\* One pod with any list of datastores; and two datacenters, the first with any
\* datastoreFolder and the second with at most one child, so that both may hold
\* a pod of the same name.
StorageInventories ==
    {Root(<<Datacenter("Ab", <<>>, <<StoragePod("Ab", ds)>>)>>) :
        ds \in SeqsUpTo(Datastores, MaxDatastores)}
    \cup {Root(<<Datacenter("Ab", <<>>, a), Datacenter("Cd", <<>>, b)>>) :
            a \in SeqsUpTo(DatastoreFolderEntities, MaxPods),
            b \in {<<>>} \cup {<<e>> : e \in DatastoreFolderEntities}}

----------------------------------------------------------------------------
(* Operations *)

\* The bookkeeping of a call: what was called and what came of it.
Called(o, a, result) ==
    /\ op' = o
    /\ args' = a
    /\ outcome' = result
    /\ prevOutcome' = IF op = o /\ args = a THEN outcome ELSE NoCall

\* VcenterConnection.connect
Connect ==
    \/ /\ nextSession <= MaxSessions
       /\ si' = nextSession
       /\ openSessions' = openSessions \cup {nextSession}
       /\ registered' = registered \cup {nextSession}
       /\ nextSession' = nextSession + 1
       /\ Called("connect",
                 <<IF disable_ssl_verification THEN "SmartConnectNoSSL" ELSE "SmartConnect">>,
                 Return(nextSession))
       /\ UNCHANGED <<rootFolder, disable_ssl_verification>>
    \/ /\ Called("connect",
                 <<IF disable_ssl_verification THEN "SmartConnectNoSSL" ELSE "SmartConnect">>,
                 Raise("ConnectionError", <<"Unable to connect to vCenter">>))
       /\ UNCHANGED <<rootFolder, session_vars>>

\* VcenterConnection.disconnect: self.si is handed to the collaborator unchecked.
\* Closing a live session succeeds or fails; what the collaborator does with a
\* handle that is None or already closed is its own choice (pyVim's Disconnect
\* logs out only "if si", and returns).
Disconnect ==
    \/ /\ si \in openSessions
       /\ openSessions' = openSessions \ {si}
       /\ Called("disconnect", <<>>, ReturnNone)
       /\ UNCHANGED <<rootFolder, si, nextSession, registered, disable_ssl_verification>>
    \/ /\ si \notin openSessions
       /\ Called("disconnect", <<>>, ReturnNone)
       /\ UNCHANGED <<rootFolder, session_vars>>
    \/ /\ Called("disconnect", <<>>,
                 Raise("ConnectionError", <<"Unable to disconnect from vCenter">>))
       /\ UNCHANGED <<rootFolder, session_vars>>

\* The resolver reads self.si.content: it needs the handle of line 43.
Usable == si # NoHandle

GetDatacenters ==
    /\ Usable
    /\ \E n \in QueryNames \cup {None}, order \in Orders(DatacenterSet) :
          Called("get_datacenters", <<n>>, get_datacenters(n, order))
    /\ UNCHANGED <<rootFolder, session_vars>>

GetClustersObject ==
    /\ Usable
    /\ \E n \in QueryNames, c \in {"Ab", "Cd"}, order \in Orders(DatacenterSet) :
          Called("get_clusters_object", <<n, c>>, get_clusters_object(n, c, order))
    /\ UNCHANGED <<rootFolder, session_vars>>

GetClusters ==
    /\ Usable
    /\ \E n \in QueryNames, order \in Orders(DatacenterSet) :
          Called("get_clusters", <<n>>, get_clusters(n, order))
    /\ UNCHANGED <<rootFolder, session_vars>>

GetDatastoreClusters ==
    /\ Usable
    /\ \E n \in QueryNames, order \in Orders(DatacenterSet) :
          Called("get_datastore_clusters", <<n>>, get_datastore_clusters(n, order))
    /\ UNCHANGED <<rootFolder, session_vars>>

GetDatastoreWithMostSpaceInCluster ==
    /\ Usable
    /\ \E n \in QueryNames, order \in Orders(DatacenterSet) :
          Called("get_datastore_with_most_space_in_cluster", <<n>>,
                 get_datastore_with_most_space_in_cluster(n, order))
    /\ UNCHANGED <<rootFolder, session_vars>>

GetNetworks ==
    /\ Usable
    /\ \E n \in QueryNames, c \in {None, "Ab", "Cd"}, order \in Orders(DatacenterSet) :
          Called("get_networks", <<n, c>>, get_networks(n, c, order))
    /\ UNCHANGED <<rootFolder, session_vars>>

FindFolderAndPath ==
    /\ Usable
    /\ \E n \in QueryNames :
          Called("find_folder_and_path", <<n>>, find_folder_and_path(n))
    /\ UNCHANGED <<rootFolder, session_vars>>

GetTemplate ==
    /\ Usable
    /\ \E n \in QueryNames :
          Called("get_template", <<n>>, get_template(n))
    /\ UNCHANGED <<rootFolder, session_vars>>

----------------------------------------------------------------------------
(* Specifications *)

\* After VcenterConnection.__init__: no handle yet.
InitConnection ==
    /\ rootFolder = Root(<<>>)
    /\ si = NoHandle
    /\ openSessions = {}
    /\ nextSession = 1
    /\ registered = {}
    /\ disable_ssl_verification \in BOOLEAN
    /\ op = "__init__"
    /\ args = <<>>
    /\ outcome = NoCall
    /\ prevOutcome = NoCall

\* After VcenterFacts.__init__ against a given inventory: connect() has returned.
InitFacts(inventories) ==
    /\ rootFolder \in inventories
    /\ si = 1
    /\ openSessions = {1}
    /\ nextSession = 2
    /\ registered = {1}
    /\ disable_ssl_verification = FALSE
    /\ op = "__init__"
    /\ args = <<>>
    /\ outcome = NoCall
    /\ prevOutcome = NoCall

NextConnection == Connect \/ Disconnect

Next ==
    \/ GetDatacenters
    \/ GetClustersObject
    \/ GetClusters
    \/ GetDatastoreClusters
    \/ GetDatastoreWithMostSpaceInCluster
    \/ GetNetworks
    \/ FindFolderAndPath
    \/ GetTemplate

SpecConnection == InitConnection /\ [][NextConnection]_vars

Spec == InitFacts(RootInventories) /\ [][Next]_vars

SpecCompute == InitFacts(ComputeInventories) /\ [][Next]_vars

SpecStorage == InitFacts(StorageInventories) /\ [][Next]_vars

----------------------------------------------------------------------------
(* Claims *)

children == rootFolder.childEntity

\* The datacenters directly under root that bear the name n.
DatacentersNamed(n) ==
    {i \in DOMAIN children : children[i].type = "Datacenter" /\ children[i].name = n}

\* C1 (as claimed): get_datacenters(name) with any name that no datacenter
\* directly under root bears, the empty string included, fails with "No
\* datacenter found" and returns nothing.
C1_AbsentNameAlwaysFails ==
    (op = "get_datacenters" /\ args[1] # None /\ DatacentersNamed(args[1]) = {})
        => /\ outcome.kind = "raise"
           /\ outcome.msg[1] = "No datacenter found with the name"

C3_AtMostOneSession ==
    /\ Cardinality(openSessions) <= 1
    /\ openSessions \subseteq {si}

\* C4 (as claimed): disconnect() called while the instance holds no valid
\* session (no handle, or a handle already closed) fails with ConnectionError.
C4_DisconnectNeedsSession ==
    [][(op' = "disconnect" /\ si \notin openSessions)
          => (outcome'.kind = "raise" /\ outcome'.exc = "ConnectionError")]_vars

\* The storage pods named n, as <<datacenter, child>> positions: in each
\* datacenter the first child of its datastoreFolder that is a pod of that name.
PodsNamed(n) ==
    LET named(d, i) == /\ children[d].datastoreFolder[i].type = "StoragePod"
                       /\ children[d].datastoreFolder[i].name = n
    IN  UNION {{<<d, i>> : i \in {i \in DOMAIN children[d].datastoreFolder :
                                    /\ named(d, i)
                                    /\ \A j \in 1..(i - 1) : ~named(d, j)}} :
                d \in DatacenterSet}

\* What the call is to yield for the pod at p: an error for an empty pod, else
\* the record of its first datastore of largest free space.
MostSpaceOf(p, n, result) ==
    LET ds == children[p[1]].datastoreFolder[p[2]].childEntity
    IN  IF ds = <<>>
        THEN /\ result.kind = "raise"
             /\ result.msg[1] = "No datastores found in the specified datastore cluster"
        ELSE \E k \in DOMAIN ds :
                /\ \A j \in DOMAIN ds : ds[j].summary.freeSpace <= ds[k].summary.freeSpace
                /\ \A j \in 1..(k - 1) : ds[j].summary.freeSpace < ds[k].summary.freeSpace
                /\ result = Return([name |-> ds[k].name,
                                    datastore_cluster |-> n,
                                    free_space |-> ds[k].summary.freeSpace,
                                    total_space |-> ds[k].summary.capacity])

\* C5: get_datastore_with_most_space_in_cluster(pod_name) fails with "No
\* datastore cluster found" when no datacenter holds a pod of exactly that name;
\* otherwise, for a pod of that name, it fails with "No datastores found" when
\* the pod is empty and else returns the record of the pod's datastore of
\* largest free space, the first of them in child order, with datastore_cluster
\* the name asked for.
C5_MostSpace ==
    op = "get_datastore_with_most_space_in_cluster" =>
        IF PodsNamed(args[1]) = {}
        THEN /\ outcome.kind = "raise"
             /\ outcome.msg = <<"No datastore cluster found with the name", args[1]>>
        ELSE \E p \in PodsNamed(args[1]) : MostSpaceOf(p, args[1], outcome)

\* C5's case: the pod found holds several datastores, two of which tie on the
\* largest free space, and a record has been returned.
C5_Witness ==
    /\ op = "get_datastore_with_most_space_in_cluster"
    /\ outcome.kind = "return"
    /\ \E p \in PodsNamed(args[1]) :
          LET ds == children[p[1]].datastoreFolder[p[2]].childEntity
          IN  /\ Len(ds) >= 2
              /\ \E j, k \in DOMAIN ds :
                    /\ j < k
                    /\ ds[j].name # ds[k].name
                    /\ ds[j].summary.freeSpace = ds[k].summary.freeSpace
                    /\ ds[j].summary.freeSpace = outcome.value.free_space
    /\ Cardinality(PodsNamed(args[1])) = 1

\* C6: for a datacenter that exists, get_clusters returns one record per compute
\* cluster of its host folder and none for its other children, in child order,
\* each with the cluster's name, summary.totalMemory and summary.numCpuCores and
\* with the datacenter's name.
C6_ClusterRecords ==
    (op = "get_clusters" /\ DatacentersNamed(args[1]) # {}) =>
        \E d \in DatacentersNamed(args[1]) :
            LET hf == children[d].hostFolder
                clusters == {i \in DOMAIN hf : hf[i].type = "ClusterComputeResource"}
            IN  /\ outcome.kind = "return"
                /\ Len(outcome.value) = Cardinality(clusters)
                /\ \E f \in [DOMAIN outcome.value -> clusters] :
                      /\ \A a, b \in DOMAIN f : a < b => f[a] < f[b]
                      /\ \A a \in DOMAIN f :
                            /\ outcome.value[a].name = hf[f[a]].name
                            /\ outcome.value[a].total_memory = hf[f[a]].summary.totalMemory
                            /\ outcome.value[a].total_cores = hf[f[a]].summary.numCpuCores
                            /\ outcome.value[a].datacenter = args[1]

\* C6's case: the host folder holds a compute cluster and a child of another
\* type, and the call has returned the one record.
C6_Witness ==
    /\ op = "get_clusters"
    /\ outcome.kind = "return"
    /\ Len(outcome.value) = 1
    /\ \E d \in DatacentersNamed(args[1]) :
          /\ Len(children[d].hostFolder) = 2
          /\ \E i \in DOMAIN children[d].hostFolder :
                children[d].hostFolder[i].type = "ComputeResource"

\* The root-level template virtual machines whose name is n, whatever the case.
TemplatesNamed(n) ==
    {i \in DOMAIN children :
        /\ children[i].type = "VirtualMachine"
        /\ children[i].template
        /\ lower(children[i].name) = lower(n)}

RootTemplates ==
    {i \in DOMAIN children : children[i].type = "VirtualMachine" /\ children[i].template}

\* C7: get_template(name) returns the list of all and only the root children that
\* are template virtual machines named so, case apart; when there is none it
\* fails with an error that names the template asked for and lists the names of
\* every root-level template.
C7_Templates ==
    op = "get_template" =>
        IF TemplatesNamed(args[1]) # {}
        THEN /\ outcome.kind = "return"
             /\ {outcome.value[k] : k \in DOMAIN outcome.value} = TemplatesNamed(args[1])
             /\ Len(outcome.value) = Cardinality(TemplatesNamed(args[1]))
        ELSE /\ outcome.kind = "raise"
             /\ outcome.msg[1] = "No template found with the name"
             /\ outcome.msg[2] = args[1]
             /\ Len(outcome.msg[4]) = Cardinality(RootTemplates)
             /\ \A i \in RootTemplates :
                    \E k \in DOMAIN outcome.msg[4] : outcome.msg[4][k] = children[i].name

\* C7's case: the name asked for equals no template's name as written and
\* matches two templates case apart; the list of both has been returned.
C7_Witness ==
    /\ op = "get_template"
    /\ args = <<"AB">>
    /\ outcome.kind = "return"
    /\ Len(outcome.value) = 2

\* The records of the networks of the cluster at position i of datacenter d.
NetworkRecords(d, i) ==
    LET cluster == children[d].hostFolder[i]
    IN  [k \in DOMAIN cluster.network |->
            [name |-> cluster.network[k].name,
             datacenter |-> children[d].name,
             cluster |-> cluster.name]]

\* C8 (as claimed): for a datacenter that exists, get_networks returns one record
\* per network of one compute cluster of that datacenter, whatever the clusters
\* argument.
C8_NetworkRecords ==
    (op = "get_networks" /\ DatacentersNamed(args[1]) # {}) =>
        /\ outcome.kind = "return"
        /\ \E d \in DatacentersNamed(args[1]) :
              \E i \in DOMAIN children[d].hostFolder :
                  /\ children[d].hostFolder[i].type = "ClusterComputeResource"
                  /\ outcome.value = NetworkRecords(d, i)

ReadOnlyQueries ==
    {"get_datacenters", "get_clusters", "get_datastore_clusters",
     "get_datastore_with_most_space_in_cluster", "get_template"}

\* C9 (as claimed): a read-only query repeated with the same arguments on an
\* unchanged inventory yields the same outcome, record for record or error for
\* error.
C9_RepeatedQuerySameOutcome ==
    (op \in ReadOnlyQueries /\ prevOutcome.kind # "none") => outcome = prevOutcome

\* The folders below root, at either depth, whose name is n, whatever the case.
FolderBelowRoot(n) ==
    \E i \in DOMAIN children :
        /\ children[i].type = "Folder"
        /\ \/ lower(children[i].name) = lower(n)
           \/ \E j \in DOMAIN children[i].childEntity :
                 /\ children[i].childEntity[j].type = "Folder"
                 /\ lower(children[i].childEntity[j].name) = lower(n)

\* C10 (as claimed): find_folder_and_path(name) returns a dictionary {folder,
\* path} when a folder named so, case apart, lies at any depth below root, and
\* None when none does; it never fails.
C10_FolderFoundOrNone ==
    op = "find_folder_and_path" =>
        IF FolderBelowRoot(args[1])
        THEN /\ outcome.kind = "return"
             /\ outcome # ReturnNone
        ELSE outcome = ReturnNone

====
